---- MODULE Spec2Model ----
(***************************************************************************)
(* Object store of the jsii kernel (proxy-weak design), its event loop,    *)
(* and the reference table of the Java host runtime.                       *)
(*                                                                         *)
(* Kernel side: packages/@jsii/kernel/lib/object-store/object-store.ts     *)
(* with the ObjectHandle, InterfaceCollection and Sequence classes.        *)
(* JavaScript objects are modelled as a heap: real referents, proxies and  *)
(* handles have an identity of their own; WeakRef, FinalizationRegistry    *)
(* and the KeepDuringJob list follow ECMAScript.                           *)
(***************************************************************************)
EXTENDS Integers, Sequences, FiniteSets, TLC

\* ------------------------------------------------------------------------
\* Bounds of the model
\* ------------------------------------------------------------------------
NumReferents == 2
MaxIds == 2
MaxProxies == 2
MaxIfaceArgs == 2
MaxHostObjects == 2
MaxHostIds == 1

\* ------------------------------------------------------------------------
\* Program constants
\* ------------------------------------------------------------------------
Origin == 10000
Stride == 1
EMPTY_OBJECT_FQN == "Object"

\* ------------------------------------------------------------------------
\* Values
\* ------------------------------------------------------------------------
Range(s) == {s[i] : i \in 1..Len(s)}

\* the real JavaScript objects user code may hand to the store
Referents == 1..NumReferents

RealInstance(x) == [kind |-> "object", obj |-> x, serial |-> 0]
NullInstance == [kind |-> "null", obj |-> 0, serial |-> 0]
\* new Proxy(this.object, new RealObjectProxyHandler(this.object)): obj is
\* both the proxy's target and the handler's realObject field
ProxyValue(x, k) == [kind |-> "proxy", obj |-> x, serial |-> k]
NoProxy == [kind |-> "none", obj |-> 0, serial |-> 0]

NoId == <<>>
InstanceId(fqn, n) == <<fqn, n>>
BogusId == InstanceId(EMPTY_OBJECT_FQN, 0)

\* ------------------------------------------------------------------------
\* The type loader: resolveType(fqn)
\* ------------------------------------------------------------------------
TypeTable ==
  [ Object |-> [kind |-> "class",     base |-> "", interfaces |-> <<>>],
    CA     |-> [kind |-> "class",     base |-> "", interfaces |-> <<"IA">>],
    CB     |-> [kind |-> "class",     base |-> "CA", interfaces |-> <<"IC">>],
    IA     |-> [kind |-> "interface", base |-> "", interfaces |-> <<>>],
    IB     |-> [kind |-> "interface", base |-> "", interfaces |-> <<"IA">>],
    IC     |-> [kind |-> "interface", base |-> "", interfaces |-> <<>>],
    IX     |-> [kind |-> "interface", base |-> "", interfaces |-> <<"CA">>],
    CX     |-> [kind |-> "class",     base |-> "IA", interfaces |-> <<>>],
    IY     |-> [kind |-> "interface", base |-> "", interfaces |-> <<"IZ">>],
    IZ     |-> [kind |-> "interface", base |-> "", interfaces |-> <<"IY">>],
    CY     |-> [kind |-> "class",     base |-> "CZ", interfaces |-> <<>>],
    CZ     |-> [kind |-> "class",     base |-> "CY", interfaces |-> <<>>] ]

resolveType(fqn) == TypeTable[fqn]

\* lexicographic order of the FQNs in use, as Array.prototype.sort sees them
FqnOrder ==
  <<"CA", "CB", "CX", "CY", "CZ", "IA", "IB", "IC", "IX", "IY", "IZ", "Object">>
FqnRank(f) == CHOOSE i \in 1..Len(FqnOrder) : FqnOrder[i] = f

\* arguments the environment passes to register where the claims are about
\* types and interfaces: a class FQN (or an interface FQN in its place) and
\* a list of interface FQNs (or a class FQN among them)
ClassArgs == {"Object", "CB", "IA"}
IfaceArgFqns == {"IA", "IB", "CA"}
IfaceArgs == UNION {[1..n -> IfaceArgFqns] : n \in 0..MaxIfaceArgs}

\* the typed requests register one object again and again: what they
\* exercise is the type and the interfaces of a single handle
TypedReferents == {CHOOSE x \in Referents : TRUE}

\* ------------------------------------------------------------------------
\* InterfaceCollection
\* ------------------------------------------------------------------------
\* Each operator returns the interface set as the call left it and whether
\* the call threw: a throw leaves what was added before it.
RECURSIVE addFromInterface(_, _), AddInterfaceLoop(_, _, _)
addFromInterface(S, fqn) ==
  IF resolveType(fqn).kind # "interface"
  THEN [set |-> S, err |-> TRUE]
  ELSE AddInterfaceLoop(S, resolveType(fqn).interfaces, 1)

AddInterfaceLoop(S, ifaces, i) ==
  IF i > Len(ifaces) THEN [set |-> S, err |-> FALSE]
  ELSE IF ifaces[i] \in S THEN AddInterfaceLoop(S, ifaces, i + 1)
  ELSE LET r == addFromInterface(S \cup {ifaces[i]}, ifaces[i])
       IN  IF r.err THEN r ELSE AddInterfaceLoop(r.set, ifaces, i + 1)

RECURSIVE addFromClass(_, _)
addFromClass(S, fqn) ==
  IF resolveType(fqn).kind # "class"
  THEN [set |-> S, err |-> TRUE]
  ELSE LET b == IF resolveType(fqn).base # ""
                THEN addFromClass(S, resolveType(fqn).base)
                ELSE [set |-> S, err |-> FALSE]
       IN  IF b.err THEN b
           ELSE AddInterfaceLoop(b.set, resolveType(fqn).interfaces, 1)

NewInterfaceCollection(classFQN) ==
  IF classFQN # EMPTY_OBJECT_FQN
  THEN addFromClass({}, classFQN)
  ELSE [set |-> {}, err |-> FALSE]

\* ------------------------------------------------------------------------
\* Sequence
\* ------------------------------------------------------------------------
\* a next() that forgets to advance
SequenceNextStuck(nv) == [result |-> nv, nextValue |-> nv]

\* next(): the value returned and the value of nextValue afterwards
SequenceNext(nv) == [result |-> nv, nextValue |-> nv + Stride]

\* A number handed to the constructor is written as twice its value, so
\* that 3 stands for 1.5.  Number.isInteger:
IsInteger(twice) == twice % 2 = 0

\* width of the significand of a number: every integer up to 2^MantissaBits
\* is a number, above it only every second one is (an IEEE double has 53
\* bits; the width is scaled down to stay within 32-bit arithmetic)
MantissaBits == 20

Exact == 2^MantissaBits

\* the number nearest to the integer x, ties going to the even significand,
\* for x below 2 * Exact
ToNumber(x) ==
  IF x <= Exact \/ x % 2 = 0 THEN x
  ELSE IF (x - 1) % 4 = 0 THEN x - 1 ELSE x + 1

\* no Sequence constructed yet
NoSequence ==
  [state |-> "none", args |-> <<>>, stride |-> 0, nextValue |-> 0,
   calls |-> 0, result |-> 0]

\* new Sequence(origin, stride); args keeps the parameters (twice their
\* values) for the record
NewSequence(origin, stride) ==
  IF ~(origin >= 0 /\ IsInteger(origin)) \/ ~(stride > 0 /\ IsInteger(stride))
  THEN [NoSequence EXCEPT !.state = "AssertionError",
                          !.args = <<origin, stride>>]
  ELSE [state |-> "constructed", args |-> <<origin, stride>>,
        stride |-> stride \div 2, nextValue |-> origin \div 2,
        calls |-> 0, result |-> 0]

\* Sequence.next(): result is the value returned, calls counts the calls
next(seq) ==
  [seq EXCEPT !.result = seq.nextValue,
              !.nextValue = ToNumber(seq.nextValue + seq.stride),
              !.calls = @ + 1]

\* ------------------------------------------------------------------------
\* ObjectHandle
\* ------------------------------------------------------------------------
\* for (const fqn of this.declaredInterfaces) providedInterfaces.addFromInterface(fqn)
RECURSIVE ProvideDeclared(_, _, _)
ProvideDeclared(S, ifaces, i) ==
  IF i > Len(ifaces) THEN [set |-> S, err |-> FALSE]
  ELSE LET r == addFromInterface(S, ifaces[i])
       IN  IF r.err THEN r ELSE ProvideDeclared(r.set, ifaces, i + 1)

\* a handle that does not keep the referent it was built for
NewObjectHandleForgetting(classFQN, instance, interfaceFQNs, n) ==
  LET c == NewInterfaceCollection(classFQN)
      p == IF c.err THEN c ELSE ProvideDeclared(c.set, interfaceFQNs, 1)
  IN  [err |-> p.err,
       handle |-> [classFQN |-> classFQN,
                   instanceId |-> InstanceId(classFQN, n),
                   object |-> NullInstance,
                   proxyReference |-> NoProxy,
                   declaredInterfaces |-> Range(interfaceFQNs) \ p.set,
                   providedInterfaces |-> p.set]]

\* a constructor that does not delete the provided interfaces from the
\* declared ones
NewObjectHandleUntrimmed(classFQN, instance, interfaceFQNs, n) ==
  LET c == NewInterfaceCollection(classFQN)
      p == IF c.err THEN c ELSE ProvideDeclared(c.set, interfaceFQNs, 1)
  IN  [err |-> p.err,
       handle |-> [classFQN |-> classFQN,
                   instanceId |-> InstanceId(classFQN, n),
                   object |-> instance,
                   proxyReference |-> NoProxy,
                   declaredInterfaces |-> Range(interfaceFQNs),
                   providedInterfaces |-> p.set]]

\* new ObjectHandle(opts), given the value drawn from the sequence
NewObjectHandle(classFQN, instance, interfaceFQNs, n) ==
  LET c == NewInterfaceCollection(classFQN)
      p == IF c.err THEN c ELSE ProvideDeclared(c.set, interfaceFQNs, 1)
  IN  [err |-> p.err,
       handle |-> [classFQN |-> classFQN,
                   instanceId |-> InstanceId(classFQN, n),
                   object |-> instance,
                   proxyReference |-> NoProxy,
                   declaredInterfaces |-> Range(interfaceFQNs) \ p.set,
                   providedInterfaces |-> p.set]]

\* the loop of mergeInterfaces: declared and provided as the loop left them
RECURSIVE MergeLoop(_, _, _, _)
MergeLoop(decl, prov, ifaces, i) ==
  IF i > Len(ifaces) THEN [declared |-> decl, provided |-> prov, err |-> FALSE]
  ELSE LET r == addFromInterface(prov, ifaces[i])
       IN  IF r.err THEN [declared |-> decl, provided |-> r.set, err |-> TRUE]
           ELSE MergeLoop(decl \cup {ifaces[i]}, r.set, ifaces, i + 1)

\* a mergeInterfaces that adds the declarations and never trims them
mergeInterfacesUntrimmed(h, interfaceFQNs) ==
  IF Len(interfaceFQNs) = 0 THEN [handle |-> h, err |-> FALSE]
  ELSE LET m == MergeLoop(h.declaredInterfaces, h.providedInterfaces,
                          interfaceFQNs, 1)
       IN  [handle |-> [h EXCEPT !.declaredInterfaces = m.declared,
                                 !.providedInterfaces = m.provided],
            err |-> m.err]

mergeInterfaces(h, interfaceFQNs) ==
  IF Len(interfaceFQNs) = 0 THEN [handle |-> h, err |-> FALSE]
  ELSE LET m == MergeLoop(h.declaredInterfaces, h.providedInterfaces,
                          interfaceFQNs, 1)
       IN  [handle |-> [h EXCEPT
                          !.declaredInterfaces =
                             IF m.err THEN m.declared
                             ELSE m.declared \ m.provided,
                          !.providedInterfaces = m.provided],
            err |-> m.err]

\* Array.from(set).sort()
RECURSIVE SortFqns(_)
SortFqns(S) ==
  IF S = {} THEN <<>>
  ELSE LET m == CHOOSE f \in S : \A g \in S : FqnRank(f) <= FqnRank(g)
       IN  <<m>> \o SortFqns(S \ {m})

interfaces(h) == SortFqns(h.declaredInterfaces)

\* a reference that carries the interfaces field even when the list is empty
objRefAlwaysListing(h) ==
  [ref |-> h.instanceId,
   hasInterfaces |-> TRUE,
   interfaces |-> interfaces(h)]

\* TOKEN_REF and TOKEN_INTERFACES of the object reference; an absent
\* interfaces field is the empty sequence with hasInterfaces FALSE
objRef(h) ==
  [ref |-> h.instanceId,
   hasInterfaces |-> Len(interfaces(h)) > 0,
   interfaces |-> interfaces(h)]
NoRef == [ref |-> NoId, hasInterfaces |-> FALSE, interfaces |-> <<>>]

\* ------------------------------------------------------------------------
\* State of the kernel process
\* ------------------------------------------------------------------------
VARIABLES
  nextValue,     \* Sequence.nextValue of ObjectStore.idSequence
  heap,          \* the ObjectHandle objects ever constructed, by address
  handles,       \* ObjectStore.handles: instance ID -> handle address
  instanceInfo,  \* ObjectStore.instanceInfo: instance -> handle address
  finalized,     \* ObjectStore.finalized, in insertion order
  registry,      \* cells of the FinalizationRegistry not yet called back
  live,          \* proxies the garbage collector has not reclaimed
  kept,          \* KeepDuringJob list of the running job
  userRefs,      \* proxies user code holds a strong reference to
  minted,        \* number of proxies created so far
  pc,            \* position of the event loop
  wire,          \* messages written to the host since the last request was read
  ret,           \* outcome of the last call into the store
  emitted,       \* events emitted by the last call into the store
  reanimated     \* history: IDs handed out again while in finalized, and by what

kvars == <<nextValue, heap, handles, instanceInfo, finalized, registry, live,
           kept, userRefs, minted, pc, wire, ret, emitted, reanimated>>

VARIABLES
  objectsById,          \* Java ObjectStore.objectsById: ID -> ObjectHandle
  referenceQueue,       \* Java ObjectStore.referenceQueue, oldest first
  referenceInstanceId,  \* Java ObjectStore.referenceInstanceId
  weakRefs,             \* the WeakReference objects ever constructed
  hostLive,             \* host objects the JVM collector has not reclaimed
  hostUser,             \* host objects the application holds
  hostMinted,           \* number of host objects created so far
  hret,                 \* outcome of the last call into the host store
  released,             \* history: IDs released since last retained
  channel               \* what the host runtime has yet to do with the
                        \* kernel's messages, and the reference each host
                        \* proxy stands for

hvars == <<objectsById, referenceQueue, referenceInstanceId, weakRefs,
           hostLive, hostUser, hostMinted, hret, released, channel>>

VARIABLES
  sequence              \* a Sequence built with explicit parameters, and the
                        \* history of the calls made to it

VARIABLES
  closure               \* an InterfaceCollection being built: its set, the
                        \* call stack of the walk, and the calls made so far

NoHandle == 0

\* what a call into the store returned or threw: op and the arguments id
\* and inst, the error thrown, the handle tryGetHandle found, the object
\* reference and the proxy returned, the batch returned by
\* finalizedInstanceIds with what the finalized set and the reanimation
\* history held before it

RetNone ==
  [op |-> "none", error |-> "none", id |-> NoId, inst |-> NoProxy,
   found |-> NoHandle, ref |-> NoRef, proxy |-> NoProxy, batch |-> <<>>,
   flushed |-> <<>>, reanimated |-> {}]

\* Set.prototype.add on a set kept in insertion order
SetAdd(s, e) == IF e \in Range(s) THEN s ELSE Append(s, e)

\* Map.prototype.get / WeakMap.prototype.get
MapGet(m, k) == IF k \in DOMAIN m THEN m[k] ELSE NoHandle
MapSet(m, k, v) == [x \in DOMAIN m \cup {k} |-> IF x = k THEN v ELSE m[x]]
MapDelete(m, k) == [x \in DOMAIN m \ {k} |-> m[x]]

\* WeakRef.prototype.deref
Deref(p) == IF p \in live THEN p ELSE NoProxy

\* ObjectHandle.hasProxy
hasProxy(h) == Deref(h.proxyReference) # NoProxy

\* what hasProxy and proxy add to the KeepDuringJob list
KeepAlive(h) == IF hasProxy(h) THEN {h.proxyReference} ELSE {}

\* RealObjectProxyHandler.getOwnPropertyDescriptor for realObjectSymbol
TrapDescriptor(p) ==
  [configurable |-> FALSE, value |-> RealInstance(p.obj)]

\* Object.getOwnPropertyDescriptor(proxy, realObjectSymbol): the proxy's
\* [[GetOwnProperty]] runs the trap and then checks its result against the
\* target; the target (the real referent) has no own property of that name,
\* and a trap that reports a non-configurable property the target lacks
\* makes [[GetOwnProperty]] throw a TypeError.
TargetHasRealObjectSymbol == FALSE
ProxyGetOwnProperty(p) ==
  IF ~TrapDescriptor(p).configurable /\ ~TargetHasRealObjectSymbol
  THEN [err |-> TRUE, value |-> NoProxy]
  ELSE [err |-> FALSE, value |-> TrapDescriptor(p).value]

\* ObjectHandle.realObject
realObject(instance) ==
  IF instance.kind = "proxy"
  THEN ProxyGetOwnProperty(instance)
  ELSE [err |-> FALSE, value |-> instance]

\* ObjectStore.tryGetHandle
tryGetHandle(instance) ==
  LET r == realObject(instance)
  IN  [err |-> r.err,
       handle |-> IF r.err THEN NoHandle ELSE MapGet(instanceInfo, r.value)]

\* a proxy getter that makes a proxy and forgets to keep the WeakRef to it
GetProxyUnbound(hp, a) ==
  IF hasProxy(hp[a])
  THEN [proxy |-> hp[a].proxyReference, heap |-> hp, registry |-> registry,
        live |-> live, kept |-> kept \cup {hp[a].proxyReference},
        minted |-> minted]
  ELSE LET p == ProxyValue(hp[a].object.obj, minted + 1)
       IN  [proxy |-> p,
            heap |-> hp,
            registry |-> registry \cup {[proxy |-> p, held |-> a]},
            live |-> live \cup {p},
            kept |-> kept,
            minted |-> minted + 1]

\* a proxy getter that makes a new proxy at every call
GetProxyAlwaysNew(hp, a) ==
  LET p == ProxyValue(hp[a].object.obj, minted + 1)
  IN  [proxy |-> p,
       heap |-> [hp EXCEPT ![a].proxyReference = p],
       registry |-> registry \cup {[proxy |-> p, held |-> a]},
       live |-> live \cup {p},
       kept |-> kept \cup {p},
       minted |-> minted + 1]

\* ObjectHandle.proxy on the handle at address a of heap hp: the proxy
\* returned and the heap, registry, live set, keep list and counter after it
GetProxy(hp, a) ==
  IF hasProxy(hp[a])
  THEN [proxy |-> hp[a].proxyReference, heap |-> hp, registry |-> registry,
        live |-> live, kept |-> kept \cup {hp[a].proxyReference},
        minted |-> minted]
  ELSE LET p == ProxyValue(hp[a].object.obj, minted + 1)
       IN  [proxy |-> p,
            heap |-> [hp EXCEPT ![a].proxyReference = p],
            registry |-> registry \cup {[proxy |-> p, held |-> a]},
            live |-> live \cup {p},
            kept |-> kept \cup {p},
            minted |-> minted + 1]

\* history: the instance ID of the handle at address a, when proxy is about
\* to make a new proxy for it while the ID is in the finalized set
Reanimation(hp, a, op) ==
  IF ~hasProxy(hp[a]) /\ hp[a].instanceId \in Range(finalized)
  THEN {[id |-> hp[a].instanceId, by |-> op]}
  ELSE {}

\* a proxy can be made for the handle at address a within the bound
CanProxy(hp, a) == hasProxy(hp[a]) \/ minted < MaxProxies

\* ------------------------------------------------------------------------
\* ObjectStore
\* ------------------------------------------------------------------------
\* values user code can pass in: real objects, proxies it can still reach
ReachableProxies == live \cap (userRefs \cup kept)
\* the referents a request can name: those that were registered and one
\* that was not; unregistered referents are interchangeable and the lowest
\* stands for them
NamedReferents == {x \in Referents : x <= Len(heap) + 1}
Instances == {RealInstance(x) : x \in NamedReferents} \cup ReachableProxies

\* a null check made after the handle was constructed: an ID is drawn
RegisterNullLate(classFQN, interfaceFQNs) ==
  /\ nextValue < Origin + MaxIds * Stride
  /\ nextValue' = SequenceNext(nextValue).nextValue
  /\ ret' = [RetNone EXCEPT !.op = "register", !.error = "NullArgument",
                            !.inst = NullInstance]
  /\ emitted' = <<>>
  /\ UNCHANGED <<heap, handles, instanceInfo, finalized, registry, live, kept,
                 minted, reanimated>>

\* ObjectStore.register(opts)
RegisterNull(classFQN, interfaceFQNs) ==
  /\ ret' = [RetNone EXCEPT !.op = "register", !.error = "NullArgument",
                            !.inst = NullInstance]
  /\ emitted' = <<>>
  /\ UNCHANGED <<nextValue, heap, handles, instanceInfo, finalized, registry,
                 live, kept, minted, reanimated>>

RegisterThrows(classFQN, instance, interfaceFQNs) ==
  /\ tryGetHandle(instance).err
  /\ ret' = [RetNone EXCEPT !.op = "register", !.error = "TypeError",
                            !.inst = instance]
  /\ emitted' = <<>>
  /\ UNCHANGED <<nextValue, heap, handles, instanceInfo, finalized, registry,
                 live, kept, minted, reanimated>>

RegisterNew(classFQN, instance, interfaceFQNs) ==
  /\ ~tryGetHandle(instance).err
  /\ tryGetHandle(instance).handle = NoHandle
  /\ nextValue < Origin + MaxIds * Stride
  /\ LET n == SequenceNext(nextValue)
         c == NewObjectHandle(classFQN, instance, interfaceFQNs, n.result)
         a == Len(heap) + 1
     IN  /\ nextValue' = n.nextValue
         /\ IF c.err
            THEN /\ ret' = [RetNone EXCEPT !.op = "register",
                                           !.error = "InvalidType",
                                           !.inst = instance]
                 /\ UNCHANGED <<heap, handles, instanceInfo, registry, live,
                                kept, minted>>
            ELSE /\ minted < MaxProxies
                 /\ LET g == GetProxy(Append(heap, c.handle), a)
                    IN  /\ heap' = g.heap
                        /\ registry' = g.registry
                        /\ live' = g.live
                        /\ kept' = g.kept
                        /\ minted' = g.minted
                        /\ ret' = [RetNone EXCEPT !.op = "register",
                                                  !.inst = instance,
                                                  !.proxy = g.proxy,
                                                  !.ref = objRef(g.heap[a])]
                 /\ handles' = MapSet(handles, c.handle.instanceId, a)
                 /\ instanceInfo' = MapSet(instanceInfo, instance, a)
  /\ emitted' = <<>>
  /\ UNCHANGED <<finalized, reanimated>>

RegisterExisting(classFQN, instance, interfaceFQNs) ==
  /\ ~tryGetHandle(instance).err
  /\ tryGetHandle(instance).handle # NoHandle
  /\ LET a == tryGetHandle(instance).handle
         m == mergeInterfaces(heap[a], interfaceFQNs)
         merged == [heap EXCEPT ![a] = m.handle]
     IN  IF m.err
         THEN /\ heap' = merged
              /\ ret' = [RetNone EXCEPT !.op = "register",
                                        !.error = "InvalidType",
                                        !.inst = instance,
                                        !.found = a]
              /\ UNCHANGED <<registry, live, kept, minted, reanimated>>
         ELSE /\ CanProxy(merged, a)
              /\ LET g == GetProxy(merged, a)
                 IN  /\ reanimated' = reanimated \cup Reanimation(merged, a, "register")
                     /\ heap' = g.heap
                     /\ registry' = g.registry
                     /\ live' = g.live
                     /\ kept' = g.kept
                     /\ minted' = g.minted
                     /\ ret' = [RetNone EXCEPT !.op = "register",
                                               !.inst = instance,
                                               !.found = a,
                                               !.proxy = g.proxy,
                                               !.ref = objRef(g.heap[a])]
  /\ emitted' = <<>>
  /\ UNCHANGED <<nextValue, handles, instanceInfo, finalized>>

register(classFQN, instance, interfaceFQNs) ==
  IF instance = NullInstance
  THEN RegisterNull(classFQN, interfaceFQNs)
  ELSE \/ RegisterThrows(classFQN, instance, interfaceFQNs)
       \/ RegisterNew(classFQN, instance, interfaceFQNs)
       \/ RegisterExisting(classFQN, instance, interfaceFQNs)

\* a lookup that finds every handle ever built, deleted ones included
getHandleEverBuilt(instanceId) ==
  IF \E a \in DOMAIN heap : heap[a].instanceId = instanceId
  THEN CHOOSE a \in DOMAIN heap : heap[a].instanceId = instanceId
  ELSE NoHandle

\* ObjectStore.getHandle
getHandle(instanceId) == MapGet(handles, instanceId)

\* a dereference that hands out what the WeakRef holds and makes no proxy
dereferenceStale(instanceId) ==
  /\ IF getHandle(instanceId) = NoHandle
     THEN ret' = [RetNone EXCEPT !.op = "dereference",
                                 !.error = "UnknownReference",
                                 !.id = instanceId]
     ELSE ret' = [RetNone EXCEPT
                    !.op = "dereference",
                    !.id = instanceId,
                    !.proxy = Deref(heap[getHandle(instanceId)].proxyReference),
                    !.ref = objRef(heap[getHandle(instanceId)])]
  /\ emitted' = <<>>
  /\ UNCHANGED <<nextValue, heap, handles, instanceInfo, finalized, registry,
                 live, kept, minted, reanimated>>

\* ObjectStore.dereference(ref)
dereference(instanceId) ==
  /\ IF getHandle(instanceId) = NoHandle
     THEN /\ ret' = [RetNone EXCEPT !.op = "dereference",
                                    !.error = "UnknownReference",
                                    !.id = instanceId]
          /\ UNCHANGED <<heap, registry, live, kept, minted, reanimated>>
     ELSE LET a == getHandle(instanceId)
          IN  /\ CanProxy(heap, a)
              /\ LET g == GetProxy(heap, a)
                 IN  /\ reanimated' = reanimated \cup Reanimation(heap, a, "dereference")
                     /\ heap' = g.heap
                     /\ registry' = g.registry
                     /\ live' = g.live
                     /\ kept' = g.kept
                     /\ minted' = g.minted
                     /\ ret' = [RetNone EXCEPT !.op = "dereference",
                                               !.id = instanceId,
                                               !.proxy = g.proxy,
                                               !.ref = objRef(g.heap[a])]
  /\ emitted' = <<>>
  /\ UNCHANGED <<nextValue, handles, instanceInfo, finalized>>

\* ObjectStore.refObject(obj)
refObject(obj) ==
  /\ LET t == tryGetHandle(obj)
     IN  /\ ret' = [RetNone EXCEPT
                      !.op = "refObject",
                      !.inst = obj,
                      !.error = IF t.err THEN "TypeError" ELSE "none",
                      !.ref = IF t.err \/ t.handle = NoHandle THEN NoRef
                              ELSE objRef(heap[t.handle])]
         /\ reanimated' =
              IF ~t.err /\ t.handle # NoHandle
                 /\ heap[t.handle].instanceId \in Range(finalized)
              THEN reanimated \cup {[id |-> heap[t.handle].instanceId,
                                     by |-> "refObject"]}
              ELSE reanimated
  /\ emitted' = <<>>
  /\ UNCHANGED <<nextValue, heap, handles, instanceInfo, finalized, registry,
                 live, kept, minted>>

\* a delete without the assertion on hasProxy
deleteUnchecked(instanceId) ==
  /\ ret' = [RetNone EXCEPT !.op = "delete", !.id = instanceId]
  /\ handles' = MapDelete(handles, instanceId)
  /\ emitted' = IF instanceId \in DOMAIN handles
                THEN <<[event |-> "unmanaged", id |-> instanceId]>>
                ELSE <<>>
  /\ UNCHANGED <<nextValue, heap, instanceInfo, finalized, registry, live,
                 kept, minted, reanimated>>

\* a delete that announces the removal and leaves the handle in the map
deleteKeeping(instanceId) ==
  /\ LET a == MapGet(handles, instanceId)
     IN  IF a # NoHandle /\ hasProxy(heap[a])
         THEN /\ ret' = [RetNone EXCEPT !.op = "delete",
                                        !.error = "StillReachable",
                                        !.id = instanceId]
              /\ kept' = kept \cup KeepAlive(heap[a])
              /\ emitted' = <<>>
         ELSE /\ ret' = [RetNone EXCEPT !.op = "delete", !.id = instanceId]
              /\ emitted' = IF instanceId \in DOMAIN handles
                            THEN <<[event |-> "unmanaged", id |-> instanceId]>>
                            ELSE <<>>
              /\ UNCHANGED kept
  /\ UNCHANGED <<nextValue, heap, handles, instanceInfo, finalized, registry,
                 live, minted, reanimated>>

\* a delete that puts the ID it removed into the finalized set
deleteEnqueueing(instanceId) ==
  /\ LET a == MapGet(handles, instanceId)
     IN  IF a # NoHandle /\ hasProxy(heap[a])
         THEN /\ ret' = [RetNone EXCEPT !.op = "delete",
                                        !.error = "StillReachable",
                                        !.id = instanceId]
              /\ kept' = kept \cup KeepAlive(heap[a])
              /\ emitted' = <<>>
              /\ UNCHANGED <<handles, finalized>>
         ELSE /\ ret' = [RetNone EXCEPT !.op = "delete", !.id = instanceId]
              /\ handles' = MapDelete(handles, instanceId)
              /\ finalized' = SetAdd(finalized, instanceId)
              /\ emitted' = IF instanceId \in DOMAIN handles
                            THEN <<[event |-> "unmanaged", id |-> instanceId]>>
                            ELSE <<>>
              /\ UNCHANGED kept
  /\ UNCHANGED <<nextValue, heap, instanceInfo, registry, live, minted,
                 reanimated>>

\* ObjectStore.delete(ref)
delete(instanceId) ==
  /\ LET a == MapGet(handles, instanceId)
     IN  IF a # NoHandle /\ hasProxy(heap[a])
         THEN /\ ret' = [RetNone EXCEPT !.op = "delete",
                                        !.error = "StillReachable",
                                        !.id = instanceId]
              /\ kept' = kept \cup KeepAlive(heap[a])
              /\ emitted' = <<>>
              /\ UNCHANGED handles
         ELSE /\ ret' = [RetNone EXCEPT !.op = "delete", !.id = instanceId]
              /\ handles' = MapDelete(handles, instanceId)
              /\ emitted' = IF instanceId \in DOMAIN handles
                            THEN <<[event |-> "unmanaged", id |-> instanceId]>>
                            ELSE <<>>
              /\ UNCHANGED kept
  /\ UNCHANGED <<nextValue, heap, instanceInfo, finalized, registry, live,
                 minted, reanimated>>

\* a filter that lets every enqueued ID through
NoFilter(iid) == TRUE

\* the filter of finalizedInstanceIds: no new proxy since the ID was enqueued
NoNewProxy(iid) ==
  ~(MapGet(handles, iid) # NoHandle /\ hasProxy(heap[MapGet(handles, iid)]))

\* ObjectStore.finalizedInstanceIds()
finalizedInstanceIds ==
  /\ ret' = [RetNone EXCEPT !.op = "finalizedInstanceIds",
                            !.batch = SelectSeq(finalized, NoNewProxy),
                            !.flushed = finalized,
                            !.reanimated = reanimated]
  /\ kept' = kept \cup UNION {KeepAlive(heap[handles[i]]) :
                                i \in Range(finalized) \cap DOMAIN handles}
  /\ finalized' = <<>>
  /\ reanimated' = {}
  /\ emitted' = <<>>
  /\ UNCHANGED <<nextValue, heap, handles, instanceInfo, registry, live,
                 minted>>

\* a callback that also drops the handle, as a store that tracks referents
\* rather than proxies would
onProxyFinalizedDropping(a) ==
  /\ finalized' = SetAdd(finalized, heap[a].instanceId)
  /\ handles' = MapDelete(handles, heap[a].instanceId)
  /\ emitted' = <<[event |-> "releasable", id |-> heap[a].instanceId]>>
  /\ ret' = [RetNone EXCEPT !.op = "onProxyFinalized",
                            !.id = heap[a].instanceId]
  /\ UNCHANGED <<nextValue, heap, instanceInfo, live, kept, minted,
                 reanimated>>

\* a callback that keeps the finalized IDs in an array instead of a Set
onProxyFinalizedAppending(a) ==
  /\ finalized' = Append(finalized, heap[a].instanceId)
  /\ emitted' = <<[event |-> "releasable", id |-> heap[a].instanceId]>>
  /\ ret' = [RetNone EXCEPT !.op = "onProxyFinalized",
                            !.id = heap[a].instanceId]
  /\ UNCHANGED <<nextValue, heap, handles, instanceInfo, live, kept, minted,
                 reanimated>>

\* a callback that starts a new finalized set with its own ID
onProxyFinalizedReplacing(a) ==
  /\ finalized' = <<heap[a].instanceId>>
  /\ emitted' = <<[event |-> "releasable", id |-> heap[a].instanceId]>>
  /\ ret' = [RetNone EXCEPT !.op = "onProxyFinalized",
                            !.id = heap[a].instanceId]
  /\ UNCHANGED <<nextValue, heap, handles, instanceInfo, live, kept, minted,
                 reanimated>>

\* a callback that also unbinds the proxy reference of its handle
onProxyFinalizedUnbinding(a) ==
  /\ finalized' = SetAdd(finalized, heap[a].instanceId)
  /\ heap' = [heap EXCEPT ![a].proxyReference = NoProxy]
  /\ emitted' = <<[event |-> "releasable", id |-> heap[a].instanceId]>>
  /\ ret' = [RetNone EXCEPT !.op = "onProxyFinalized",
                            !.id = heap[a].instanceId]
  /\ UNCHANGED <<nextValue, handles, instanceInfo, live, kept, minted,
                 reanimated>>

\* ObjectStore.onProxyFinalized(handle)
onProxyFinalized(a) ==
  /\ finalized' = SetAdd(finalized, heap[a].instanceId)
  /\ emitted' = <<[event |-> "releasable", id |-> heap[a].instanceId]>>
  /\ ret' = [RetNone EXCEPT !.op = "onProxyFinalized",
                            !.id = heap[a].instanceId]
  /\ UNCHANGED <<nextValue, heap, handles, instanceInfo, live, kept, minted,
                 reanimated>>

\* ------------------------------------------------------------------------
\* The JavaScript engine: user code and garbage collection
\* ------------------------------------------------------------------------
\* user code stores a reference to a proxy it was handed during this job
UserRetain(p) ==
  /\ UNCHANGED <<hvars, sequence, closure>>
  /\ pc = "process"
  /\ p \in ReachableProxies \ userRefs
  /\ userRefs' = userRefs \cup {p}
  /\ UNCHANGED <<nextValue, heap, handles, instanceInfo, finalized, registry,
                 live, kept, minted, pc, wire, ret, emitted, reanimated>>

\* user code drops its reference to a proxy
UserDrop(p) ==
  /\ UNCHANGED <<hvars, sequence, closure>>
  /\ pc = "process"
  /\ p \in userRefs
  /\ userRefs' = userRefs \ {p}
  /\ UNCHANGED <<nextValue, heap, handles, instanceInfo, finalized, registry,
                 live, kept, minted, pc, wire, ret, emitted, reanimated>>

\* the collector reclaims a proxy nothing references strongly
CollectProxy(p) ==
  /\ UNCHANGED <<hvars, sequence, closure>>
  /\ p \in live \ (userRefs \cup kept)
  /\ live' = live \ {p}
  /\ UNCHANGED <<nextValue, heap, handles, instanceInfo, finalized, registry,
                 kept, userRefs, minted, pc, wire, ret, emitted,
                 reanimated>>

\* the FinalizationRegistry calls back for a reclaimed proxy, as a job of its
\* own between two runs of the event loop
ProxyFinalized(cell) ==
  /\ UNCHANGED <<hvars, sequence, closure>>
  /\ pc = "idle"
  /\ cell \in registry
  /\ cell.proxy \notin live
  /\ registry' = registry \ {cell}
  /\ onProxyFinalized(cell.held)
  /\ UNCHANGED <<userRefs, pc, wire>>

\* ------------------------------------------------------------------------
\* The kernel's event loop
\* ------------------------------------------------------------------------
Hello == [type |-> "hello", ids |-> <<>>]
Release(ids) == [type |-> "release", ids |-> ids]
Response == [type |-> "response", ids |-> <<>>]

KnownIds == {heap[a].instanceId : a \in DOMAIN heap} \cup {BogusId}

ReadRequest ==
  /\ UNCHANGED <<hvars, sequence, closure>>
  /\ pc = "idle"
  /\ pc' = "process"
  /\ wire' = <<>>
  /\ UNCHANGED <<nextValue, heap, handles, instanceInfo, finalized, registry,
                 live, kept, userRefs, minted, ret, emitted, reanimated>>

Exit ==
  /\ UNCHANGED <<hvars, sequence, closure>>
  /\ pc = "idle"
  /\ pc' = "exited"
  /\ UNCHANGED <<nextValue, heap, handles, instanceInfo, finalized, registry,
                 live, kept, userRefs, minted, wire, ret, emitted,
                 reanimated>>

\* a request that makes the kernel register an object of an anonymous type
ProcessRegister ==
  /\ UNCHANGED <<hvars, sequence, closure>>
  /\ pc = "process"
  /\ \E instance \in Instances \cup {NullInstance} :
       register(EMPTY_OBJECT_FQN, instance, <<>>)
  /\ UNCHANGED <<userRefs, pc, wire>>

\* a request that makes the kernel register an object with a declared type
ProcessRegisterTyped ==
  /\ UNCHANGED <<hvars, sequence, closure>>
  /\ pc = "process"
  /\ \E classFQN \in ClassArgs, x \in TypedReferents,
        interfaceFQNs \in IfaceArgs :
       register(classFQN, RealInstance(x), interfaceFQNs)
  /\ UNCHANGED <<userRefs, pc, wire>>

ProcessDereference ==
  /\ UNCHANGED <<hvars, sequence, closure>>
  /\ pc = "process"
  /\ \E instanceId \in KnownIds : dereference(instanceId)
  /\ UNCHANGED <<userRefs, pc, wire>>

ProcessRefObject ==
  /\ UNCHANGED <<hvars, sequence, closure>>
  /\ pc = "process"
  /\ \E obj \in Instances : refObject(obj)
  /\ UNCHANGED <<userRefs, pc, wire>>

ProcessDelete ==
  /\ UNCHANGED <<hvars, sequence, closure>>
  /\ pc = "process"
  /\ \E instanceId \in KnownIds : delete(instanceId)
  /\ UNCHANGED <<userRefs, pc, wire>>

SendNotifications ==
  /\ UNCHANGED <<hvars, sequence, closure>>
  /\ pc = "process"
  /\ finalizedInstanceIds
  /\ wire' = IF ret'.batch # <<>> THEN Append(wire, Release(ret'.batch))
             ELSE wire
  /\ pc' = "respond"
  /\ UNCHANGED userRefs

\* a loop that writes the notification after the response
SendResponseThenRelease ==
  /\ UNCHANGED <<hvars, sequence, closure>>
  /\ pc = "respond"
  /\ wire' = IF wire # <<>> THEN <<Response>> \o wire ELSE <<Response>>
  /\ pc' = "idle"
  /\ kept' = {}
  /\ UNCHANGED <<nextValue, heap, handles, instanceInfo, finalized, registry,
                 live, userRefs, minted, ret, emitted, reanimated>>

SendResponse ==
  /\ UNCHANGED <<hvars, sequence, closure>>
  /\ pc = "respond"
  /\ wire' = Append(wire, Response)
  /\ pc' = "idle"
  /\ kept' = {}
  /\ UNCHANGED <<nextValue, heap, handles, instanceInfo, finalized, registry,
                 live, userRefs, minted, ret, emitted, reanimated>>

\* ------------------------------------------------------------------------
\* Java host runtime: software.amazon.jsii.ObjectStore
\* ------------------------------------------------------------------------
\* null
NoObject == 0

\* the instance IDs the kernel can have sent to the host
HostIds ==
  {InstanceId(EMPTY_OBJECT_FQN, Origin + k * Stride) :
     k \in 0..(MaxHostIds - 1)}

\* what a call into the host store returned or threw
HRetNone ==
  [op |-> "none", error |-> "none", id |-> NoId, object |-> NoObject,
   dropped |-> {}]

\* WeakReference.get
WeakGet(ref) ==
  IF weakRefs[ref].cleared THEN NoObject ELSE weakRefs[ref].referent

\* a record that starts with the weak reference alone
JavaObjectHandleWeakOnly(referent, instanceId) ==
  [instanceId |-> instanceId,
   weakReference |-> Len(weakRefs) + 1,
   strongReference |-> NoObject]

\* new ObjectHandle(referent, instanceId, referenceQueue); the new
\* WeakReference is the next entry of weakRefs
JavaObjectHandle(referent, instanceId) ==
  [instanceId |-> instanceId,
   weakReference |-> Len(weakRefs) + 1,
   strongReference |-> referent]

\* ObjectHandle.getReferent
getReferent(h) ==
  IF h.strongReference # NoObject THEN h.strongReference
  ELSE WeakGet(h.weakReference)

\* ObjectHandle.release
HandleRelease(h) == [h EXCEPT !.strongReference = NoObject]

\* ObjectHandle.retain: the assignment is made before the check that throws
HandleRetain(h) ==
  [handle |-> [h EXCEPT !.strongReference = WeakGet(h.weakReference)],
   err |-> WeakGet(h.weakReference) = NoObject]

\* the branch of register that builds a record
RegisterRecord(object, instanceId) ==
  LET handle == JavaObjectHandle(object, instanceId)
  IN  /\ Len(weakRefs) < MaxHostObjects
      /\ weakRefs' = Append(weakRefs, [referent |-> object,
                                       cleared |-> FALSE,
                                       enqueued |-> FALSE])
      /\ referenceInstanceId'
           = MapSet(referenceInstanceId, handle.weakReference, instanceId)
      /\ objectsById' = MapSet(objectsById, instanceId, handle)
      /\ hret' = [HRetNone EXCEPT !.op = "register", !.id = instanceId]
      /\ released' = released \ {instanceId}
      /\ UNCHANGED referenceQueue

\* a register that builds a record whether or not the ID has one
hostRegisterReplacing(object, instanceId) ==
  RegisterRecord(object, instanceId)

\* ObjectStore.register
hostRegister(object, instanceId) ==
  IF instanceId \in DOMAIN objectsById
  THEN LET r == HandleRetain(objectsById[instanceId])
       IN  /\ objectsById' = MapSet(objectsById, instanceId, r.handle)
           /\ hret' = [HRetNone EXCEPT
                         !.op = "register",
                         !.id = instanceId,
                         !.error = IF r.err THEN "IllegalStateException"
                                   ELSE "none"]
           /\ released' = IF r.err THEN released
                          ELSE released \ {instanceId}
           /\ UNCHANGED <<referenceQueue, referenceInstanceId, weakRefs>>
  ELSE RegisterRecord(object, instanceId)

\* ObjectStore.getObject
getObject(instanceId) ==
  /\ hret' = [HRetNone EXCEPT
                !.op = "getObject",
                !.id = instanceId,
                !.object = IF instanceId \in DOMAIN objectsById
                           THEN getReferent(objectsById[instanceId])
                           ELSE NoObject]
  /\ UNCHANGED <<objectsById, referenceQueue, referenceInstanceId, weakRefs,
                 released>>

\* ObjectStore.release; objectsById.get returns null for an ID without a
\* record and the call on it throws
release(instanceId) ==
  /\ IF instanceId \in DOMAIN objectsById
     THEN /\ objectsById' = MapSet(objectsById, instanceId,
                                   HandleRelease(objectsById[instanceId]))
          /\ hret' = [HRetNone EXCEPT !.op = "release", !.id = instanceId]
          /\ released' = released \cup {instanceId}
     ELSE /\ hret' = [HRetNone EXCEPT !.op = "release", !.id = instanceId,
                                      !.error = "NullPointerException"]
          /\ UNCHANGED <<objectsById, released>>
  /\ UNCHANGED <<referenceQueue, referenceInstanceId, weakRefs>>

\* ObjectStore.retain
retain(instanceId) ==
  /\ IF instanceId \in DOMAIN objectsById
     THEN LET r == HandleRetain(objectsById[instanceId])
          IN  /\ objectsById' = MapSet(objectsById, instanceId, r.handle)
              /\ hret' = [HRetNone EXCEPT
                            !.op = "retain",
                            !.id = instanceId,
                            !.error = IF r.err THEN "IllegalStateException"
                                      ELSE "none"]
              /\ released' = IF r.err THEN released
                             ELSE released \ {instanceId}
     ELSE /\ hret' = [HRetNone EXCEPT !.op = "retain", !.id = instanceId,
                                      !.error = "NullPointerException"]
          /\ UNCHANGED <<objectsById, released>>
  /\ UNCHANGED <<referenceQueue, referenceInstanceId, weakRefs>>

\* the loop of getDroppedReferences over referenceQueue.poll()
RECURSIVE DrainLoop(_, _, _, _)
DrainLoop(queue, byRef, byId, result) ==
  IF queue = <<>>
  THEN [byRef |-> byRef, byId |-> byId, result |-> result]
  ELSE IF Head(queue) \in DOMAIN byRef
  THEN DrainLoop(Tail(queue), MapDelete(byRef, Head(queue)),
                 MapDelete(byId, byRef[Head(queue)]),
                 result \cup {byRef[Head(queue)]})
  ELSE DrainLoop(Tail(queue), byRef, byId, result)

\* ObjectStore.getDroppedReferences
getDroppedReferences ==
  LET d == DrainLoop(referenceQueue, referenceInstanceId, objectsById, {})
  IN  /\ referenceQueue' = <<>>
      /\ referenceInstanceId' = d.byRef
      /\ objectsById' = d.byId
      /\ hret' = [HRetNone EXCEPT !.op = "getDroppedReferences",
                                  !.dropped = d.result]
      /\ UNCHANGED <<weakRefs, released>>

\* the objects some record holds through its strong reference
StronglyHeld ==
  {objectsById[id].strongReference : id \in DOMAIN objectsById} \ {NoObject}

\* the host application creates an object (a JsiiObject or a proxy for a
\* reference the kernel sent) and holds it
HostNewObject ==
  /\ hostMinted < MaxHostObjects
  /\ hostMinted' = hostMinted + 1
  /\ hostLive' = hostLive \cup {hostMinted + 1}
  /\ hostUser' = hostUser \cup {hostMinted + 1}
  /\ UNCHANGED <<objectsById, referenceQueue, referenceInstanceId, weakRefs,
                 hret, released>>
  /\ UNCHANGED <<kvars, channel, sequence, closure>>

HostDrop(o) ==
  /\ o \in hostUser
  /\ hostUser' = hostUser \ {o}
  /\ UNCHANGED <<objectsById, referenceQueue, referenceInstanceId, weakRefs,
                 hostLive, hostMinted, hret, released>>
  /\ UNCHANGED <<kvars, channel, sequence, closure>>

\* the JVM collector reclaims an object that is not strongly reachable and
\* clears the weak references to it
HostCollect(o) ==
  /\ o \in hostLive \ (hostUser \cup StronglyHeld)
  /\ hostLive' = hostLive \ {o}
  /\ weakRefs' = [r \in DOMAIN weakRefs |->
                    IF weakRefs[r].referent = o
                    THEN [weakRefs[r] EXCEPT !.cleared = TRUE]
                    ELSE weakRefs[r]]
  /\ UNCHANGED <<objectsById, referenceQueue, referenceInstanceId, hostUser,
                 hostMinted, hret, released>>
  /\ UNCHANGED <<kvars, channel, sequence, closure>>

\* some time after it cleared a weak reference the collector appends it to
\* the queue it was created with
HostEnqueue(ref) ==
  /\ ref \in DOMAIN weakRefs
  /\ weakRefs[ref].cleared
  /\ ~weakRefs[ref].enqueued
  /\ weakRefs' = [weakRefs EXCEPT ![ref].enqueued = TRUE]
  /\ referenceQueue' = Append(referenceQueue, ref)
  /\ UNCHANGED <<objectsById, referenceInstanceId, hostLive, hostUser,
                 hostMinted, hret, released>>
  /\ UNCHANGED <<kvars, channel, sequence, closure>>

\* the runtime registers an object it holds: one the application created,
\* or the proxy of a reference received from the kernel
HostCallRegister ==
  /\ \E o \in hostUser, id \in HostIds : hostRegister(o, id)
  /\ UNCHANGED <<hostLive, hostUser, hostMinted>>
  /\ UNCHANGED <<kvars, channel, sequence, closure>>

\* the runtime resolves a reference received from the kernel; the caller
\* holds what it gets
HostCallGetObject ==
  /\ \E id \in HostIds : getObject(id)
  /\ hostUser' = hostUser \cup ({hret'.object} \ {NoObject})
  /\ UNCHANGED <<hostLive, hostMinted>>
  /\ UNCHANGED <<kvars, channel, sequence, closure>>

\* the runtime processes a release notification naming id
HostCallRelease ==
  /\ \E id \in HostIds : release(id)
  /\ UNCHANGED <<hostLive, hostUser, hostMinted>>
  /\ UNCHANGED <<kvars, channel, sequence, closure>>

\* the runtime passes the reference id back to the kernel
HostCallRetain ==
  /\ \E id \in HostIds : retain(id)
  /\ UNCHANGED <<hostLive, hostUser, hostMinted>>
  /\ UNCHANGED <<kvars, channel, sequence, closure>>

\* the runtime collects the IDs to send del requests for
HostCallGetDroppedReferences ==
  /\ getDroppedReferences
  /\ UNCHANGED <<hostLive, hostUser, hostMinted>>
  /\ UNCHANGED <<kvars, channel, sequence, closure>>

\* ------------------------------------------------------------------------
\* The host runtime library talking to the kernel
\* ------------------------------------------------------------------------
\* nothing to release, to register or to delete, and no host proxy
NoChannel ==
  [toRelease |-> <<>>, toRegister |-> {}, toDelete |-> {}, refOf |-> <<>>]

\* the host objects that stand for the reference id
HostProxiesOf(id) == {o \in DOMAIN channel.refOf : channel.refOf[o] = id}

\* the host sends a request once it has dealt with the last response
HostSendsRequest ==
  /\ channel.toRelease = <<>>
  /\ channel.toRegister = {}
  /\ ReadRequest

\* the code run for a request makes the kernel return an object: the
\* object is registered and its reference goes into the response
KernelReturnsObject ==
  /\ pc = "process"
  /\ hostMinted + Cardinality(channel.toRegister) < MaxHostObjects
  /\ \E x \in NamedReferents :
       register(EMPTY_OBJECT_FQN, RealInstance(x), <<>>)
  /\ channel' = IF ret'.error = "none"
                THEN [channel EXCEPT !.toRegister = @ \cup {ret'.ref.ref}]
                ELSE channel
  /\ UNCHANGED <<userRefs, pc, wire, sequence, closure>>
  /\ UNCHANGED <<objectsById, referenceQueue, referenceInstanceId, weakRefs,
                 hostLive, hostUser, hostMinted, hret, released>>

\* the host passes a reference it holds back to the kernel: it restores
\* the strong reference and the kernel dereferences the instance ID
HostPassesReference ==
  /\ pc = "process"
  /\ \E o \in hostUser \cap DOMAIN channel.refOf :
       /\ retain(channel.refOf[o])
       /\ IF hret'.error = "none"
          THEN dereference(channel.refOf[o])
          ELSE UNCHANGED <<nextValue, heap, handles, instanceInfo, finalized,
                           registry, live, kept, minted, ret, emitted,
                           reanimated>>
  /\ UNCHANGED <<userRefs, pc, wire, sequence, closure>>
  /\ UNCHANGED <<hostLive, hostUser, hostMinted, channel>>

\* the host sends a del request for a reference it has drained
HostSendsDel ==
  /\ pc = "process"
  /\ \E id \in channel.toDelete :
       /\ delete(id)
       /\ channel' = [channel EXCEPT !.toDelete = @ \ {id}]
  /\ UNCHANGED <<userRefs, pc, wire, sequence, closure>>
  /\ UNCHANGED <<objectsById, referenceQueue, referenceInstanceId, weakRefs,
                 hostLive, hostUser, hostMinted, hret, released>>

\* the kernel writes the release notification of this request
KernelSendsNotifications ==
  /\ pc = "process"
  /\ finalizedInstanceIds
  /\ wire' = IF ret'.batch # <<>> THEN Append(wire, Release(ret'.batch))
             ELSE wire
  /\ pc' = "respond"
  /\ channel' = [channel EXCEPT !.toRelease = ret'.batch]
  /\ UNCHANGED <<userRefs, sequence, closure>>
  /\ UNCHANGED <<objectsById, referenceQueue, referenceInstanceId, weakRefs,
                 hostLive, hostUser, hostMinted, hret, released>>

\* the host processes a release notification as soon as it has received it
HostReceivesRelease ==
  /\ channel.toRelease # <<>>
  /\ release(Head(channel.toRelease))
  /\ channel' = [channel EXCEPT !.toRelease = Tail(@)]
  /\ UNCHANGED <<hostLive, hostUser, hostMinted>>
  /\ UNCHANGED <<kvars, sequence, closure>>

\* the host reads a reference out of the response: it looks the ID up,
\* mints a proxy when it finds none, and registers what it hands out
HostReceivesReference ==
  /\ pc = "idle"
  /\ channel.toRelease = <<>>
  /\ \E id \in channel.toRegister :
       LET found == IF id \in DOMAIN objectsById
                    THEN getReferent(objectsById[id])
                    ELSE NoObject
           o == IF found # NoObject THEN found ELSE hostMinted + 1
       IN  /\ hostRegister(o, id)
           /\ hostMinted' = IF found # NoObject THEN hostMinted
                            ELSE hostMinted + 1
           /\ hostLive' = hostLive \cup {o}
           /\ hostUser' = hostUser \cup {o}
           /\ channel' = [channel EXCEPT !.toRegister = @ \ {id},
                                         !.refOf = MapSet(@, o, id)]
  /\ UNCHANGED <<kvars, sequence, closure>>

\* the host collects the references whose proxies were reclaimed
HostDrains ==
  /\ referenceQueue # <<>>
  /\ getDroppedReferences
  /\ channel' = [channel EXCEPT !.toDelete = @ \cup hret'.dropped]
  /\ UNCHANGED <<hostLive, hostUser, hostMinted>>
  /\ UNCHANGED <<kvars, sequence, closure>>

\* ------------------------------------------------------------------------
\* A Sequence of its own
\* ------------------------------------------------------------------------
MaxCalls == 3

\* parameters tried (twice their values): negative, fractional, zero, small,
\* the default origin, and origins at the edge of the exact integers
OriginArgs == {-2, -1, 0, 1, 2, 2 * Origin, 2 * (Exact - 1), 2 * Exact}

StrideArgs == {-2, 0, 1, 2 * Stride, 3, 4}

ConstructSequence ==
  /\ sequence.state = "none"
  /\ \E origin \in OriginArgs, stride \in StrideArgs :
       sequence' = NewSequence(origin, stride)
  /\ UNCHANGED <<kvars, hvars, closure>>

CallNext ==
  /\ sequence.state = "constructed"
  /\ sequence.calls < MaxCalls
  /\ sequence' = next(sequence)
  /\ UNCHANGED <<kvars, hvars, closure>>

\* ------------------------------------------------------------------------
\* The walk of InterfaceCollection, one step at a time
\* ------------------------------------------------------------------------
\* frames the call stack holds before the engine gives up with
\* "RangeError: Maximum call stack size exceeded"
MaxDepth == 4

NoClosure == [state |-> "none", set |-> {}, stack |-> <<>>, calls |-> 0]

\* a call of addFromClass or addFromInterface about to look at its type
\* (i = 0), or in its loop at the i-th interface of the type
Frame(fn, fqn, i) == [fn |-> fn, fqn |-> fqn, i |-> i]

\* the stack with its top frame at the next interface
Advance(stack) == [stack EXCEPT ![Len(stack)].i = @ + 1]

\* a call made from the top frame, or the stack overflow it causes
Call(c, stack, set, callee) ==
  IF Len(stack) >= MaxDepth
  THEN [c EXCEPT !.state = "RangeError", !.set = set, !.stack = <<>>]
  ELSE [c EXCEPT !.set = set, !.stack = Append(stack, callee)]

\* new InterfaceCollection(resolveType, classFQN)
NewCollection ==
  /\ closure.state = "none"
  /\ \E classFQN \in DOMAIN TypeTable :
       closure' = IF classFQN # EMPTY_OBJECT_FQN
                  THEN [NoClosure EXCEPT
                          !.state = "running",
                          !.stack = <<Frame("addFromClass", classFQN, 0)>>,
                          !.calls = 1]
                  ELSE [NoClosure EXCEPT !.state = "done", !.calls = 1]
  /\ UNCHANGED <<kvars, hvars, sequence>>

\* addFromInterface(fqn) called on the collection from outside
CallAddFromInterface ==
  /\ closure.state \in {"done", "InvalidType"}
  /\ closure.calls < MaxCalls
  /\ \E fqn \in DOMAIN TypeTable :
       closure' = [closure EXCEPT
                     !.state = "running",
                     !.stack = <<Frame("addFromInterface", fqn, 0)>>,
                     !.calls = @ + 1]
  /\ UNCHANGED <<kvars, hvars, sequence>>

\* the next step of the frame on top of the stack
WalkStep ==
  /\ closure.state = "running"
  /\ LET top == closure.stack[Len(closure.stack)]
         ti == resolveType(top.fqn)
         expected == IF top.fn = "addFromClass" THEN "class" ELSE "interface"
     IN  closure' =
           IF top.i = 0
           THEN IF ti.kind # expected
                THEN [closure EXCEPT !.state = "InvalidType", !.stack = <<>>]
                ELSE IF top.fn = "addFromClass" /\ ti.base # ""
                THEN Call(closure, Advance(closure.stack), closure.set,
                          Frame("addFromClass", ti.base, 0))
                ELSE [closure EXCEPT !.stack = Advance(closure.stack)]
           ELSE IF top.i > Len(ti.interfaces)
                THEN [closure EXCEPT
                        !.stack = SubSeq(@, 1, Len(@) - 1),
                        !.state = IF Len(closure.stack) = 1 THEN "done"
                                  ELSE "running"]
                ELSE IF ti.interfaces[top.i] \in closure.set
                THEN [closure EXCEPT !.stack = Advance(closure.stack)]
                ELSE Call(closure, Advance(closure.stack),
                          closure.set \cup {ti.interfaces[top.i]},
                          Frame("addFromInterface", ti.interfaces[top.i], 0))
  /\ UNCHANGED <<kvars, hvars, sequence>>

Init ==
  /\ nextValue = Origin
  /\ heap = <<>>
  /\ handles = <<>>
  /\ instanceInfo = <<>>
  /\ finalized = <<>>
  /\ registry = {}
  /\ live = {}
  /\ kept = {}
  /\ userRefs = {}
  /\ minted = 0
  /\ pc = "idle"
  /\ wire = <<Hello>>
  /\ ret = RetNone
  /\ emitted = <<>>
  /\ reanimated = {}
  /\ objectsById = <<>>
  /\ referenceQueue = <<>>
  /\ referenceInstanceId = <<>>
  /\ weakRefs = <<>>
  /\ hostLive = {}
  /\ hostUser = {}
  /\ hostMinted = 0
  /\ hret = HRetNone
  /\ released = {}
  /\ channel = NoChannel
  /\ sequence = NoSequence
  /\ closure = NoClosure

Next ==
  \/ ReadRequest
  \/ Exit
  \/ ProcessRegister
  \/ ProcessDereference
  \/ ProcessRefObject
  \/ ProcessDelete
  \/ SendNotifications
  \/ SendResponse
  \/ \E p \in live : UserRetain(p)
  \/ \E p \in userRefs : UserDrop(p)
  \/ \E p \in live : CollectProxy(p)
  \/ \E cell \in registry : ProxyFinalized(cell)

vars == <<kvars, hvars, sequence, closure>>

\* the object store under every request, user code and the collector
Spec == Init /\ [][Next]_vars

\* the object store under registrations of typed objects
TypedNext ==
  \/ ReadRequest
  \/ ProcessRegisterTyped
  \/ SendNotifications
  \/ SendResponse

TypedSpec == Init /\ [][TypedNext]_vars

\* the host reference table under the calls of the host runtime, the
\* application and the JVM collector
HostNext ==
  \/ HostNewObject
  \/ HostCallRegister
  \/ HostCallGetObject
  \/ HostCallRelease
  \/ HostCallRetain
  \/ HostCallGetDroppedReferences
  \/ \E o \in hostUser : HostDrop(o)
  \/ \E o \in hostLive : HostCollect(o)
  \/ \E ref \in DOMAIN weakRefs : HostEnqueue(ref)

HostSpec == Init /\ [][HostNext]_vars

\* kernel and host runtime together, speaking the protocol
SystemNext ==
  \/ HostSendsRequest
  \/ KernelReturnsObject
  \/ HostPassesReference
  \/ HostSendsDel
  \/ KernelSendsNotifications
  \/ SendResponse
  \/ HostReceivesRelease
  \/ HostReceivesReference
  \/ HostDrains
  \/ \E p \in live : UserRetain(p)
  \/ \E p \in userRefs : UserDrop(p)
  \/ \E p \in live : CollectProxy(p)
  \/ \E cell \in registry : ProxyFinalized(cell)
  \/ \E o \in hostUser : HostDrop(o)
  \/ \E o \in hostLive : HostCollect(o)
  \/ \E ref \in DOMAIN weakRefs : HostEnqueue(ref)

SystemSpec == Init /\ [][SystemNext]_vars

\* both collectors eventually run, the host keeps sending requests and
\* deals with what it receives; what user code does is left open
SystemFairness ==
  /\ WF_vars(HostSendsRequest)
  /\ WF_vars(KernelSendsNotifications)
  /\ WF_vars(SendResponse)
  /\ WF_vars(HostReceivesRelease)
  /\ WF_vars(HostReceivesReference)
  /\ WF_vars(HostDrains)
  /\ SF_vars(HostSendsDel)
  /\ WF_vars(\E p \in live : CollectProxy(p))
  /\ SF_vars(\E cell \in registry : ProxyFinalized(cell))
  /\ WF_vars(\E o \in hostLive : HostCollect(o))
  /\ WF_vars(\E ref \in DOMAIN weakRefs : HostEnqueue(ref))

FairSystemSpec == SystemSpec /\ SystemFairness

\* a Sequence of any parameters, next to a store that registers objects
SequenceNextStep ==
  \/ ConstructSequence
  \/ CallNext
  \/ ReadRequest
  \/ ProcessRegister
  \/ SendNotifications
  \/ SendResponse

SequenceSpec == Init /\ [][SequenceNextStep]_vars

\* an InterfaceCollection built over the type table and then added to
WalkNext ==
  \/ NewCollection
  \/ CallAddFromInterface
  \/ WalkStep

WalkSpec == Init /\ [][WalkNext]_vars

\* a walk that is under way takes its next step
FairWalkSpec == WalkSpec /\ WF_vars(WalkStep)

TypeOK ==
  /\ nextValue \in Nat
  /\ pc \in {"idle", "process", "respond", "exited"}

\* ------------------------------------------------------------------------
\* Properties
\* ------------------------------------------------------------------------
\* the handle registered under an instance ID has a live proxy
HasLiveProxy(id) == id \in DOMAIN handles /\ hasProxy(heap[handles[id]])

\* C1: delete(ref) on a handle whose proxy is still live fails with
\* StillReachable and leaves the store unchanged: the handle stays, no
\* unmanaged event is emitted, the finalized set is untouched.
C1_DeleteOfReachableFails ==
  [][\A id \in KnownIds :
       (pc = "process" /\ HasLiveProxy(id) /\ delete(id))
         => /\ ret'.error = "StillReachable"
            /\ emitted' = <<>>
            /\ UNCHANGED <<handles, instanceInfo, heap, finalized,
                           nextValue>>]_vars

C1_Witness ==
  /\ ret.op = "delete"
  /\ ret.error = "StillReachable"
  /\ HasLiveProxy(ret.id)
  /\ finalized # <<>>

\* C2: an instance ID that was in the finalized set when dereference made
\* a new proxy for its handle is not part of the next batch returned by
\* finalizedInstanceIds().
C2_ReanimatedNotReleased ==
  [][(pc = "process" /\ finalizedInstanceIds)
       => \A r \in reanimated :
            r.by = "dereference" => r.id \notin Range(ret'.batch)]_vars

C2_Witness ==
  /\ ret.op = "finalizedInstanceIds"
  /\ \E r \in ret.reanimated :
       /\ r.by = "dereference"
       /\ r.id \in Range(ret.flushed)
       /\ r.id \notin Range(ret.batch)

\* C6: a handle leaves the store only in a step of delete for its
\* instance ID; the finalization callback, the drain of the finalized set,
\* dereference, refObject and register never remove one.
C6_OnlyDeleteRemoves ==
  [][\A id \in DOMAIN handles :
       id \notin DOMAIN handles' => (pc = "process" /\ delete(id))]_vars

C6_Witness ==
  /\ ret.op = "finalizedInstanceIds"
  /\ \E id \in Range(ret.batch) : id \in DOMAIN handles /\ ~HasLiveProxy(id)

C10_RegisterReturnsLiveProxy ==
  [][(ProcessRegister /\ ret'.error = "none")
       => /\ ret'.proxy \in live'
          /\ heap'[instanceInfo'[ret'.inst]].proxyReference = ret'.proxy]_vars

C10_Witness ==
  /\ ret.op = "register"
  /\ ret.error = "none"
  /\ Len(heap) = 1
  /\ ret.proxy.serial = 2
  /\ hasProxy(heap[1])

\* the interfaces an interface FQN extends directly
ParentsOf(f) == Range(TypeTable[f].interfaces)

\* S with every interface the members of S extend, at any depth
RECURSIVE Ancestors(_)
Ancestors(S) ==
  LET n == S \cup UNION {ParentsOf(f) : f \in S}
  IN  IF n = S THEN S ELSE Ancestors(n)

\* the interfaces a class and its bases name
RECURSIVE ClassDeclares(_)
ClassDeclares(c) ==
  Range(TypeTable[c].interfaces)
    \cup (IF TypeTable[c].base # "" THEN ClassDeclares(TypeTable[c].base)
          ELSE {})

\* the declarations of a handle its class or another declaration implies
Redundant(h) ==
  {f \in h.declaredInterfaces :
     \/ f \in Ancestors(ClassDeclares(h.classFQN))
     \/ \E g \in h.declaredInterfaces \ {f} : f \in Ancestors(ParentsOf(g))}

NoDuplicates(s) == \A i, j \in 1..Len(s) : i # j => s[i] # s[j]

\* C8: registering a real referent whose handle is in the store returns
\* the handle's instance ID, draws no new ID and builds no new handle, and
\* merges the interfaces of the call into the handle: every declaration,
\* old and new, stays declared or provided, the reference lists each
\* declared interface once, and the call adds no declaration that the class
\* or another declaration implies.
C8_IdempotentRegistration ==
  [][\A classFQN \in ClassArgs, x \in TypedReferents,
        interfaceFQNs \in IfaceArgs :
       LET a == MapGet(instanceInfo, RealInstance(x))
       IN  (/\ pc = "process"
            /\ a # NoHandle
            /\ heap[a].instanceId \in DOMAIN handles
            /\ register(classFQN, RealInstance(x), interfaceFQNs)
            /\ ret'.error = "none")
             => /\ ret'.ref.ref = heap[a].instanceId
                /\ nextValue' = nextValue
                /\ Len(heap') = Len(heap)
                /\ handles' = handles
                /\ Range(interfaceFQNs) \cup heap[a].declaredInterfaces
                     \subseteq heap'[a].declaredInterfaces
                                 \cup heap'[a].providedInterfaces
                /\ heap'[a].declaredInterfaces
                     \subseteq heap[a].declaredInterfaces
                                 \cup Range(interfaceFQNs)
                /\ Range(ret'.ref.interfaces) = heap'[a].declaredInterfaces
                /\ NoDuplicates(ret'.ref.interfaces)
                /\ Redundant(heap'[a]) \subseteq Redundant(heap[a])]_vars

C8_Witness ==
  /\ ret.op = "register"
  /\ ret.error = "none"
  /\ ret.found # NoHandle
  /\ heap[ret.found].classFQN = EMPTY_OBJECT_FQN
  /\ ret.ref.interfaces = <<"IB">>
  /\ "IA" \in heap[ret.found].providedInterfaces

\* C9: a live proxy P minted for the real referent x resolves to x:
\* realObject(P) is x, P and x resolve to the same handle, and a register
\* or a refObject call made with P returns without error the reference of
\* x's handle.
C9_ProxyResolvesToReferent ==
  /\ \A p \in live :
       /\ realObject(p) = [err |-> FALSE, value |-> RealInstance(p.obj)]
       /\ tryGetHandle(p) = tryGetHandle(RealInstance(p.obj))
  /\ (ret.op \in {"register", "refObject"} /\ ret.inst.kind = "proxy")
       => /\ ret.error = "none"
          /\ ret.ref.ref
               = heap[instanceInfo[RealInstance(ret.inst.obj)]].instanceId

\* the release notifications among the messages written in this tick
ReleasesOnWire == {i \in 1..Len(wire) : wire[i].type = "release"}

\* C3: a release notification is on the wire only once the request of the
\* tick has been processed; it is the only one of the tick, and the response
\* of the tick comes after it.  When the loop is about to respond, the
\* notification is on the wire exactly if finalizedInstanceIds returned a
\* non-empty batch, and it carries that batch.
C3_ReleaseBeforeResponse ==
  /\ \A i \in ReleasesOnWire :
       /\ pc # "process"
       /\ ReleasesOnWire = {i}
       /\ \A j \in 1..Len(wire) : wire[j].type = "response" => i < j
  /\ pc = "respond"
       => /\ ret.op = "finalizedInstanceIds"
          /\ wire = IF ret.batch # <<>> THEN <<Release(ret.batch)>> ELSE <<>>

C3_Witness ==
  /\ pc = "idle"
  /\ Len(wire) = 2
  /\ wire[1].type = "release"
  /\ wire[1].ids # <<>>
  /\ wire[2] = Response

\* C4: getDroppedReferences returns an ID only when the host object of the
\* ID's record has been reclaimed by the collector: the record holds no
\* strong reference, its weak reference is cleared, and the application
\* holds no reference to the object.  A record whose strong reference is
\* set keeps its object alive: its weak reference is neither cleared nor
\* in the reference queue.
C4_DelOnlyAfterReclaim ==
  [][/\ getDroppedReferences
          => \A id \in hret'.dropped :
               /\ id \in DOMAIN objectsById
               /\ objectsById[id].strongReference = NoObject
               /\ weakRefs[objectsById[id].weakReference].cleared
               /\ weakRefs[objectsById[id].weakReference].referent
                    \notin hostLive \cup hostUser
     /\ \A id \in DOMAIN objectsById' :
          objectsById'[id].strongReference # NoObject
            => /\ objectsById'[id].strongReference \in hostLive'
               /\ ~weakRefs'[objectsById'[id].weakReference].cleared
               /\ objectsById'[id].weakReference
                    \notin Range(referenceQueue')]_vars

C4_Witness ==
  /\ hret.op = "getDroppedReferences"
  /\ hret.dropped # {}
  /\ \A id \in hret.dropped : id \notin DOMAIN objectsById
  /\ hostMinted = 2
  /\ hostLive # {}

\* C5: the strong reference of a record is set when register builds the
\* record and when retain or a repeated register returns; once set it is
\* dropped by nothing but release of that ID; and getDroppedReferences
\* returns no ID that was not released since its record was built or last
\* retained.
C5_StrongUntilReleased ==
  [][/\ \A id \in DOMAIN objectsById :
          (/\ objectsById[id].strongReference # NoObject
           /\ \/ id \notin DOMAIN objectsById'
              \/ objectsById'[id].strongReference = NoObject)
            => release(id)
     /\ \A id \in HostIds :
          (/\ \/ \E o \in hostUser : hostRegister(o, id)
              \/ retain(id)
           /\ hret'.error = "none")
            => /\ id \in DOMAIN objectsById'
               /\ objectsById'[id].strongReference \in hostLive'
     /\ getDroppedReferences => hret'.dropped \subseteq released]_vars

C5_Witness ==
  /\ hret.op = "getDroppedReferences"
  /\ hret.dropped # {}
  /\ hret.dropped \subseteq released
  /\ hostMinted = 1
  /\ hostLive = {}

\* C11: dereference of an instance ID in the store whose proxy has been
\* collected succeeds, makes a proxy that did not exist before over the
\* handle's referent, returns it, and leaves the handle with a live proxy;
\* this holds whatever the handle went through before.
C11_DereferenceReanimates ==
  [][\A id \in DOMAIN handles :
       (pc = "process" /\ ~HasLiveProxy(id) /\ dereference(id))
         => /\ ret'.error = "none"
            /\ ret'.proxy.kind = "proxy"
            /\ ret'.proxy.serial = minted + 1
            /\ ret'.proxy.obj = heap[handles[id]].object.obj
            /\ ret'.proxy \notin live
            /\ ret'.proxy \in live'
            /\ heap'[handles'[id]].proxyReference = ret'.proxy
            /\ hasProxy(heap[handles[id]])']_vars

C11_Witness ==
  /\ ret.op = "dereference"
  /\ ret.error = "none"
  /\ ret.proxy.serial = 2
  /\ ProxyValue(ret.proxy.obj, 1) \notin live
  /\ HasLiveProxy(ret.id)

\* the instance IDs of handles that were built and are not in the store
DeletedIds == {heap[a].instanceId : a \in DOMAIN heap} \ DOMAIN handles

\* C12: delete of an instance ID in the store whose handle has no live
\* proxy succeeds, removes the ID from the handles map and emits unmanaged
\* for it once; from then on the ID stays out of the map and every
\* dereference of it fails with UnknownReference.
C12_DeleteRemovesAndAnnounces ==
  [][/\ \A id \in DOMAIN handles :
          (pc = "process" /\ ~HasLiveProxy(id) /\ delete(id))
            => /\ ret'.error = "none"
               /\ id \notin DOMAIN handles'
               /\ emitted' = <<[event |-> "unmanaged", id |-> id]>>
     /\ \A id \in DeletedIds :
          /\ id \notin DOMAIN handles'
          /\ (pc = "process" /\ dereference(id))
               => /\ ret'.error = "UnknownReference"
                  /\ ret'.proxy = NoProxy]_vars

C12_Witness ==
  /\ ret.op = "dereference"
  /\ ret.error = "UnknownReference"
  /\ ret.id \in DeletedIds

\* C13: once delete has removed a handle, the handle is found neither by
\* its instance ID nor by its real referent, and refObject of the real
\* referent returns no reference.
C13_DeleteRemovesFromBothMaps ==
  /\ \A a \in DOMAIN heap :
       heap[a].instanceId \in DeletedIds
         => /\ getHandle(heap[a].instanceId) = NoHandle
            /\ tryGetHandle(heap[a].object).handle = NoHandle
  /\ (/\ ret.op = "refObject"
      /\ ret.inst.kind = "object"
      /\ \E a \in DOMAIN heap : /\ heap[a].object = ret.inst
                                /\ heap[a].instanceId \in DeletedIds)
       => ret.ref = NoRef

\* C14: delete of an instance ID that has no handle in the store, because
\* it was deleted or never existed, fails with UnknownReference.
C14_DeleteOfUnknownFails ==
  [][\A id \in KnownIds :
       (pc = "process" /\ id \notin DOMAIN handles /\ delete(id))
         => ret'.error = "UnknownReference"]_vars

\* C15: dereference of an instance ID that has no handle in the store
\* fails with UnknownReference, returns nothing, emits nothing and leaves
\* the store, the proxies and the ID sequence as they were.
C15_DereferenceOfUnknownFails ==
  [][\A id \in KnownIds :
       (pc = "process" /\ id \notin DOMAIN handles /\ dereference(id))
         => /\ ret'.error = "UnknownReference"
            /\ ret'.proxy = NoProxy
            /\ ret'.ref = NoRef
            /\ emitted' = <<>>
            /\ UNCHANGED <<nextValue, heap, handles, instanceInfo, finalized,
                           registry, live, kept, minted>>]_vars

C15_Witness ==
  /\ ret.op = "dereference"
  /\ ret.error = "UnknownReference"
  /\ ret.id = BogusId
  /\ handles # <<>>

\* C16: register of a null instance fails with NullArgument and changes
\* nothing: no ID is drawn from the sequence, no handle is built or
\* inserted, no proxy is made and no event is emitted.
C16_RegisterNullFails ==
  [][\A classFQN \in ClassArgs, interfaceFQNs \in IfaceArgs :
       (/\ pc = "process"
        /\ ret'.op = "register"
        /\ ret'.inst = NullInstance
        /\ register(classFQN, NullInstance, interfaceFQNs))
         => /\ ret'.error = "NullArgument"
            /\ ret'.ref = NoRef
            /\ ret'.proxy = NoProxy
            /\ emitted' = <<>>
            /\ UNCHANGED <<nextValue, heap, handles, instanceInfo, finalized,
                           registry, live, kept, minted>>]_vars

C16_Witness ==
  /\ ret.op = "register"
  /\ ret.error = "NullArgument"
  /\ ret.inst = NullInstance
  /\ handles # <<>>
  /\ nextValue = Origin + Stride * Len(heap)

\* the number of times e occurs in the sequence s
Occurrences(s, e) == Cardinality({i \in 1..Len(s) : s[i] = e})

C18_RefObjectReanimates ==
  [][(pc = "process" /\ finalizedInstanceIds)
       => \A r \in reanimated :
            r.by = "refObject" => r.id \notin Range(ret'.batch)]_vars

\* C19: for every handle built, declaredInterfaces and providedInterfaces
\* are disjoint and their union is the closure of the class together with
\* the declared interfaces and the parents of those.
C19_DeclaredProvidedPartition ==
  \A a \in DOMAIN heap :
    /\ heap[a].declaredInterfaces \cap heap[a].providedInterfaces = {}
    /\ heap[a].declaredInterfaces \cup heap[a].providedInterfaces
         = Ancestors(ClassDeclares(heap[a].classFQN)
                       \cup heap[a].declaredInterfaces)

\* C20: dereference of an instance ID in the store never fails: the handle
\* still holds the real referent it was registered for, and the proxy
\* returned is live and is a proxy over that referent.
C20_DereferenceOfExistingSucceeds ==
  [][\A id \in DOMAIN handles :
       (pc = "process" /\ dereference(id))
         => /\ ret'.error = "none"
            /\ ret'.proxy \in live'
            /\ heap[handles[id]].object.kind = "object"
            /\ heap'[handles[id]].object = heap[handles[id]].object
            /\ ret'.proxy.obj = heap[handles[id]].object.obj
            /\ MapGet(instanceInfo, RealInstance(ret'.proxy.obj))
                 = handles[id]]_vars

C20_Witness ==
  /\ ret.op = "dereference"
  /\ ret.error = "none"
  /\ Len(heap) = 2
  /\ ret.id = heap[2].instanceId
  /\ ret.proxy.obj = heap[2].object.obj
  /\ ret.proxy \in live

\* C21: a del request for an instance ID the kernel has never named in a
\* release notification succeeds and removes the handle. While every proxy
\* ever minted is still live no finalization callback has run, so no ID
\* has been released yet; the del is the first call of its request.
C21_DelWithoutReleaseSucceeds ==
  [][\A id \in DOMAIN handles :
       (pc = "process" /\ kept = {} /\ Cardinality(live) = minted
          /\ delete(id))
         => /\ ret'.error = "none"
            /\ id \notin DOMAIN handles']_vars

\* the instance IDs the kernel can mint
AllIds ==
  {InstanceId(EMPTY_OBJECT_FQN, Origin + k * Stride) : k \in 0..(MaxIds - 1)}

\* the object managed under id is out of reach of user code on both sides:
\* user code in the kernel can reach none of its proxies, the application
\* on the host holds no proxy that stands for it, and no response that
\* carries its reference is on its way
Unreachable(id) ==
  /\ id \in DOMAIN handles
  /\ \A p \in live \cap (userRefs \cup kept) :
       p.obj # heap[handles[id]].object.obj
  /\ HostProxiesOf(id) \cap hostUser = {}
  /\ id \notin channel.toRegister

\* C22: no leak: when both collectors eventually run and the host keeps
\* sending requests, a managed object that has become unreachable from
\* user code on both sides and stays so is eventually removed from the
\* kernel store by a del.
C22_NoLeak ==
  \A id \in AllIds :
    Unreachable(id) ~> (id \notin DOMAIN handles \/ ~Unreachable(id))

\* C23: the object reference of a handle lists the handle's declared
\* interfaces in lexicographic order, each once, and carries the interfaces
\* field exactly when that set is not empty; the reference a call returns
\* is the reference of the handle it names.
C23_WireInterfacesSorted ==
  \A a \in DOMAIN heap :
    LET r == objRef(heap[a])
    IN  /\ Range(r.interfaces) = heap[a].declaredInterfaces
        /\ \A i, j \in 1..Len(r.interfaces) :
             i < j => FqnRank(r.interfaces[i]) < FqnRank(r.interfaces[j])
        /\ r.hasInterfaces <=> heap[a].declaredInterfaces # {}
        /\ ret.ref.ref = heap[a].instanceId => ret.ref = r

C23_Witness ==
  /\ ret.op = "register"
  /\ ret.error = "none"
  /\ ret.ref.hasInterfaces
  /\ ret.ref.interfaces = <<"IA", "IB">>

\* C24: a register (and the mergeInterfaces it runs) that fails with
\* InvalidType leaves the handles map and the declaredInterfaces and
\* providedInterfaces of every handle as they were before the call, and
\* declaredInterfaces and providedInterfaces are still disjoint.
C24_FailedRegisterChangesNothing ==
  [][(pc = "process" /\ ret'.op = "register" /\ ret'.error = "InvalidType")
       => /\ handles' = handles
          /\ Len(heap') = Len(heap)
          /\ \A a \in DOMAIN heap :
               /\ heap'[a].declaredInterfaces = heap[a].declaredInterfaces
               /\ heap'[a].providedInterfaces = heap[a].providedInterfaces
               /\ heap'[a].declaredInterfaces
                    \cap heap'[a].providedInterfaces = {}]_vars

\* C25: no finalized ID is lost between the callback and the drain: the
\* callback leaves the ID of its handle in the finalized set, every step
\* but the drain keeps what the set holds, and the drain reports every ID
\* of the set whose handle has no live proxy. An ID inserted before a drain
\* is in its batch, one inserted after it is in the set for the next one.
C25_FinalizedNeverLost ==
  [][/\ \A cell \in registry :
          ProxyFinalized(cell)
            => heap[cell.held].instanceId \in Range(finalized')
     /\ \A id \in Range(finalized) :
          \/ id \in Range(finalized')
          \/ /\ pc = "process"
             /\ finalizedInstanceIds
             /\ id \in Range(ret'.batch) \/ HasLiveProxy(id)]_vars

C25_Witness ==
  /\ pc = "idle"
  /\ ret.op = "onProxyFinalized"
  /\ ret.id \in Range(finalized)
  /\ \E i \in 1..Len(wire) :
       /\ wire[i].type = "release"
       /\ wire[i].ids # <<>>
       /\ ret.id \notin Range(wire[i].ids)

\* C26: an instance ID enters the finalized set only in a step of the
\* finalization callback for a reclaimed proxy of its handle; register,
\* dereference, refObject, delete and finalizedInstanceIds add none.
C26_OnlyCallbackFinalizes ==
  [][\A id \in Range(finalized') \ Range(finalized) :
       \E cell \in registry :
         /\ ProxyFinalized(cell)
         /\ cell.proxy \notin live
         /\ cell.proxy.obj = heap[cell.held].object.obj
         /\ id = heap[cell.held].instanceId]_vars

C26_Witness ==
  /\ ret.op = "onProxyFinalized"
  /\ Len(finalized) = 2
  /\ ret.id = finalized[2]
  /\ DOMAIN handles = Range(finalized)

\* C27: the finalization callback only inserts the instance ID of its
\* handle into the finalized set: the handles map, the by-instance map,
\* the ID sequence and every handle (its proxy reference and its interface
\* sets) are the same after it as before.
C27_CallbackFrame ==
  [][\A cell \in registry :
       ProxyFinalized(cell)
         => /\ finalized' = SetAdd(finalized, heap[cell.held].instanceId)
            /\ handles' = handles
            /\ instanceInfo' = instanceInfo
            /\ nextValue' = nextValue
            /\ heap' = heap]_vars

C27_Witness ==
  /\ ret.op = "onProxyFinalized"
  /\ HasLiveProxy(ret.id)
  /\ heap[handles[ret.id]].proxyReference \in userRefs
  /\ finalized = <<ret.id>>

\* C28: the record the host registers for an object that originated in
\* the kernel (its reference arrived in a response) holds only the weak
\* reference: its strong reference is not set.
C28_KernelOriginWeakOnly ==
  [][(/\ HostReceivesReference
      /\ hret'.error = "none"
      /\ hret'.id \notin DOMAIN objectsById)
       => objectsById'[hret'.id].strongReference = NoObject]_vars

\* C29: once the host proxy registered for an instance ID has been
\* reclaimed, registering a freshly minted proxy for that ID succeeds and
\* getObject then returns the new proxy, whether the reference of the
\* reclaimed proxy has been drained (the ID has no record) or not (its
\* record has lost its referent).
C29_RegisterAfterReclaim ==
  [][\A o \in hostUser, id \in HostIds :
       (/\ \E r \in DOMAIN weakRefs : weakRefs[r].cleared
        /\ \/ id \notin DOMAIN objectsById
           \/ getReferent(objectsById[id]) = NoObject
        /\ hostRegister(o, id))
         => /\ hret'.error = "none"
            /\ id \in DOMAIN objectsById'
            /\ getReferent(objectsById[id])' = o]_vars

\* the event that tells that a new object is managed
IsManagedEvent(e) == e.event = "managed"

\* C30: a register that succeeds for an instance that has no handle yet
\* emits managed(instanceId) exactly once, with the handle in the handles
\* map; a register for an instance that has a handle emits no managed
\* event.
C30_ManagedEmittedOnce ==
  [][\A instance \in Instances :
       (/\ pc = "process"
        /\ register(EMPTY_OBJECT_FQN, instance, <<>>)
        /\ ret'.error = "none")
         => IF tryGetHandle(instance).handle = NoHandle
            THEN /\ SelectSeq(emitted', IsManagedEvent)
                      = <<[event |-> "managed", id |-> ret'.ref.ref]>>
                 /\ ret'.ref.ref \in DOMAIN handles'
            ELSE SelectSeq(emitted', IsManagedEvent) = <<>>]_vars

\* the event that tells that a handle has a user-accessible proxy again
IsRetainedEvent(e) == e.event = "retained"

\* C31: a dereference or register that makes a new proxy for a handle
\* whose proxy was reclaimed emits retained(instanceId); one that returns
\* the live proxy of the handle emits no retained event.
C31_RetainedEmitted ==
  [][/\ \A id \in DOMAIN handles :
          (pc = "process" /\ dereference(id))
            => SelectSeq(emitted', IsRetainedEvent)
                 = IF hasProxy(heap[handles[id]]) THEN <<>>
                   ELSE <<[event |-> "retained", id |-> id]>>
     /\ \A instance \in Instances :
          (/\ pc = "process"
           /\ register(EMPTY_OBJECT_FQN, instance, <<>>)
           /\ ret'.error = "none"
           /\ ret'.found # NoHandle)
            => SelectSeq(emitted', IsRetainedEvent)
                 = IF hasProxy(heap[ret'.found]) THEN <<>>
                   ELSE <<[event |-> "retained",
                           id |-> heap[ret'.found].instanceId]>>]_vars

\* ------------------------------------------------------------------------
\* The store with listeners on its events
\* ------------------------------------------------------------------------
\* EventEmitter.emit runs the listeners synchronously; what a listener
\* throws leaves emit and reaches the caller of emit
emit(listenerThrows) == IF listenerThrows THEN "ListenerError" ELSE "none"

\* ObjectStore.delete(ref) with a listener on 'unmanaged'
deleteListened(instanceId, listenerThrows) ==
  /\ LET a == MapGet(handles, instanceId)
     IN  IF a # NoHandle /\ hasProxy(heap[a])
         THEN /\ ret' = [RetNone EXCEPT !.op = "delete",
                                        !.error = "StillReachable",
                                        !.id = instanceId]
              /\ kept' = kept \cup KeepAlive(heap[a])
              /\ emitted' = <<>>
              /\ UNCHANGED handles
         ELSE /\ ret' = [RetNone EXCEPT
                           !.op = "delete",
                           !.id = instanceId,
                           !.error = IF instanceId \in DOMAIN handles
                                     THEN emit(listenerThrows)
                                     ELSE "none"]
              /\ handles' = MapDelete(handles, instanceId)
              /\ emitted' = IF instanceId \in DOMAIN handles
                            THEN <<[event |-> "unmanaged", id |-> instanceId]>>
                            ELSE <<>>
              /\ UNCHANGED kept
  /\ UNCHANGED <<nextValue, heap, instanceInfo, finalized, registry, live,
                 minted, reanimated>>

\* ObjectStore.onProxyFinalized(handle) with a listener on 'releasable'
onProxyFinalizedListened(a, listenerThrows) ==
  /\ finalized' = SetAdd(finalized, heap[a].instanceId)
  /\ emitted' = <<[event |-> "releasable", id |-> heap[a].instanceId]>>
  /\ ret' = [RetNone EXCEPT !.op = "onProxyFinalized",
                            !.id = heap[a].instanceId,
                            !.error = emit(listenerThrows)]
  /\ UNCHANGED <<nextValue, heap, handles, instanceInfo, live, kept, minted,
                 reanimated>>

ProcessDeleteListened ==
  /\ UNCHANGED <<hvars, sequence, closure>>
  /\ pc = "process"
  /\ \E instanceId \in KnownIds, listenerThrows \in BOOLEAN :
       deleteListened(instanceId, listenerThrows)
  /\ UNCHANGED <<userRefs, pc, wire>>

ProxyFinalizedListened(cell) ==
  /\ UNCHANGED <<hvars, sequence, closure>>
  /\ pc = "idle"
  /\ cell \in registry
  /\ cell.proxy \notin live
  /\ registry' = registry \ {cell}
  /\ \E listenerThrows \in BOOLEAN :
       onProxyFinalizedListened(cell.held, listenerThrows)
  /\ UNCHANGED <<userRefs, pc, wire>>

ListenedNext ==
  \/ ReadRequest
  \/ ProcessRegister
  \/ ProcessDeleteListened
  \/ SendNotifications
  \/ SendResponse
  \/ \E p \in live : CollectProxy(p)
  \/ \E cell \in registry : ProxyFinalizedListened(cell)

\* the object store with listeners that may throw
ListenedSpec == Init /\ [][ListenedNext]_vars

\* C32: an exception raised by a listener does not leave the emitting
\* operation: a delete that removes a handle and a finalization callback
\* complete without error whatever the listener does, and the removal and
\* the insertion into the finalized set are kept.
C32_EmitNeverThrows ==
  [][/\ \A instanceId \in DOMAIN handles :
          (/\ pc = "process"
           /\ ~hasProxy(heap[handles[instanceId]])
           /\ deleteListened(instanceId, TRUE))
            => /\ ret'.error = "none"
               /\ instanceId \notin DOMAIN handles'
     /\ \A cell \in registry :
          (/\ pc = "idle"
           /\ cell.proxy \notin live
           /\ onProxyFinalizedListened(cell.held, TRUE))
            => /\ ret'.error = "none"
               /\ heap[cell.held].instanceId \in Range(finalized')]_vars

\* C33: a dereference or register of a handle whose proxy is live returns
\* that proxy, makes none and registers nothing with the finalization
\* registry; and no handle ever has two live proxies.
C33_OneLiveProxy ==
  [][/\ \A id \in DOMAIN handles :
          (/\ pc = "process"
           /\ hasProxy(heap[handles[id]])
           /\ dereference(id))
            => /\ ret'.proxy = heap[handles[id]].proxyReference
               /\ registry' = registry
               /\ minted' = minted
     /\ \A instance \in Instances :
          (/\ pc = "process"
           /\ register(EMPTY_OBJECT_FQN, instance, <<>>)
           /\ ret'.found # NoHandle
           /\ hasProxy(heap[ret'.found]))
            => /\ ret'.proxy = heap[ret'.found].proxyReference
               /\ registry' = registry
               /\ minted' = minted
     /\ \A a \in DOMAIN heap' :
          Cardinality({p \in live' : p.obj = heap'[a].object.obj}) <= 1]_vars

C33_Witness ==
  /\ ret.op = "dereference"
  /\ ret.error = "none"
  /\ minted = 1
  /\ ret.proxy \in live
  /\ Cardinality(registry) = 1
  /\ kept = {ret.proxy}
  /\ userRefs = {}

\* the members of S that the class grants or that another member of S
\* extends, at any depth
Implied(classFQN, S) ==
  {f \in S :
     \/ f \in Ancestors(ClassDeclares(classFQN))
     \/ \E g \in S \ {f} : f \in Ancestors(ParentsOf(g))}

\* C34: after a registration with the interfaces D1 and after a
\* re-registration with D2 of a handle no failed call has touched, the
\* reference lists exactly the interfaces of D1 and D2 that neither the
\* class grants nor another of them extends, whatever the order of the
\* FQNs in a call and of the calls.
C34_MergeMinimises ==
  [][\A classFQN \in ClassArgs, x \in TypedReferents,
        interfaceFQNs \in IfaceArgs :
       LET a == MapGet(instanceInfo, RealInstance(x))
           cls == IF a = NoHandle THEN classFQN ELSE heap[a].classFQN
           all == IF a = NoHandle THEN Range(interfaceFQNs)
                  ELSE heap[a].declaredInterfaces \cup Range(interfaceFQNs)
       IN  (/\ pc = "process"
            /\ a # NoHandle => Redundant(heap[a]) = {}
            /\ register(classFQN, RealInstance(x), interfaceFQNs)
            /\ ret'.error = "none")
             => Range(ret'.ref.interfaces) = all \ Implied(cls, all)]_vars

C34_Witness ==
  /\ ret.op = "register"
  /\ ret.error = "none"
  /\ ret.found # NoHandle
  /\ heap[ret.found].classFQN = "CB"
  /\ ret.ref.interfaces = <<"IB">>
  /\ heap[ret.found].providedInterfaces = {"IA", "IC"}

\* ------------------------------------------------------------------------
\* Registration against an ill-formed type table
\* ------------------------------------------------------------------------
\* a class whose base is an interface, an interface that extends a class
IllClassArgs == {"Object", "CB", "CX"}
IllIfaceArgs == UNION {[1..n -> {"IB", "IX"}] : n \in 0..MaxIfaceArgs}

ProcessRegisterIllTyped ==
  /\ UNCHANGED <<hvars, sequence, closure>>
  /\ pc = "process"
  /\ \E classFQN \in IllClassArgs, x \in TypedReferents,
        interfaceFQNs \in IllIfaceArgs :
       register(classFQN, RealInstance(x), interfaceFQNs)
  /\ UNCHANGED <<userRefs, pc, wire>>

IllTypedNext ==
  \/ ReadRequest
  \/ ProcessRegisterIllTyped
  \/ SendNotifications
  \/ SendResponse

IllTypedSpec == Init /\ [][IllTypedNext]_vars

\* the interface f, or an interface it inherits at any depth, resolves to
\* a type that is not an interface
IfaceBad(f) == \E g \in Ancestors({f}) : resolveType(g).kind # "interface"

\* the class c or a base in its chain resolves to a type that is not a
\* class, or an interface one of them names is bad
RECURSIVE ClassChainBad(_)
ClassChainBad(c) ==
  \/ resolveType(c).kind # "class"
  \/ \E f \in Range(resolveType(c).interfaces) : IfaceBad(f)
  \/ resolveType(c).base # "" /\ ClassChainBad(resolveType(c).base)

\* C35: building the interface closure fails with InvalidType exactly
\* when the class, a base in its chain, or an interface (declared, or
\* inherited at any depth) resolves to a type of the wrong kind.
C35_WrongKindFails ==
  [][\A classFQN \in IllClassArgs, x \in TypedReferents,
        interfaceFQNs \in IllIfaceArgs :
       (pc = "process" /\ register(classFQN, RealInstance(x), interfaceFQNs))
         => (ret'.error = "InvalidType"
               <=> \/ \E f \in Range(interfaceFQNs) : IfaceBad(f)
                   \/ /\ MapGet(instanceInfo, RealInstance(x)) = NoHandle
                      /\ classFQN # EMPTY_OBJECT_FQN
                      /\ ClassChainBad(classFQN))]_vars

\* C36: the k-th call (k = 0, 1, 2, ...) to next() of a Sequence returns
\* origin + k * stride; the IDs a store with the default Sequence hands out
\* end in 10000, 10001, ... in the order of the registrations; and the
\* constructor rejects exactly an origin < 0, a stride <= 0 and a
\* non-integer parameter.
C36_ArithmeticProgression ==
  /\ (sequence.state = "constructed" /\ sequence.calls > 0)
       => sequence.result = (sequence.args[1] \div 2)
                            + (sequence.calls - 1) * (sequence.args[2] \div 2)
  /\ \A a \in DOMAIN heap :
       heap[a].instanceId[2] = Origin + (a - 1) * Stride
  /\ sequence.state # "none"
       => (sequence.state = "AssertionError"
             <=> \/ sequence.args[1] < 0
                 \/ sequence.args[2] <= 0
                 \/ ~IsInteger(sequence.args[1])
                 \/ ~IsInteger(sequence.args[2]))

\* C37: the instance ID in the objRef that register has just returned has a
\* handle in the store, whatever registrations, dereferences, deletes and
\* finalizations came before.
C37_RegisteredIsDereferenceable ==
  (ret.op = "register" /\ ret.error = "none" /\ ret.ref # NoRef)
    => /\ ret.ref.ref \in DOMAIN handles
       /\ getHandle(ret.ref.ref) # NoHandle

\* C38: every instance ID that finalizedInstanceIds() returns has a handle
\* in the store at that moment, and that handle has no live proxy; the ID of
\* a handle deleted since its finalization is not in the batch.
C38_BatchOnlyStoredHandles ==
  [][finalizedInstanceIds
       => \A id \in Range(ret'.batch) :
            /\ id \in DOMAIN handles
            /\ ~hasProxy(heap[handles[id]])]_vars

\* C39: every instance ID of a release notification has a record in the
\* host reference table when the host processes it, so that release never
\* works on a missing record.
C39_ReleaseFindsRecord ==
  [][HostReceivesRelease
       => /\ Head(channel.toRelease) \in DOMAIN objectsById
          /\ hret'.error = "none"]_vars

\* C40: building the interface closure terminates over every finite type
\* table, also one with a cycle among the interfaces or in a class base
\* chain: a walk that has started ends, with the set built or with the
\* error of a wrongly typed FQN.
C40_ClosureTerminates ==
  (closure.state = "running") ~> (closure.state \in {"done", "InvalidType"})

====
